---- MODULE Spec2Model ----
(***************************************************************************)
(* Model of the hospital-readmission workflow: the cell-level helpers of   *)
(* src/src/utils.py, the enrichment pipeline of                            *)
(* src/src/data_preprocessing.py, the training entry point of              *)
(* src/src/train.py, the serving UI of src/app_streamlit.py, the fitted    *)
(* preprocessor of build_preprocessor and the step runner of               *)
(* src/test_workflow.py.                                                   *)
(*                                                                         *)
(* Python strings are sequences of one-character strings, so that strip,   *)
(* prefix matching, splitting and parsing are computed, not assumed.       *)
(* A cell value is a record [t, s, n, d]: t is the kind ("nan", "none",    *)
(* "str", "num", or "raised" for a call that raised), s the characters of  *)
(* a string, n/d the value of a number (d is 1 or 2: the only fractions    *)
(* the code produces are the halves of (a + b) / 2.0).                     *)
(***************************************************************************)
EXTENDS Integers, Sequences, FiniteSets, TLC

VARIABLES
    arg, fn, ret,                       \* one call of a cell-level function
    heap, df_in, maps, out1, out2, pc,  \* calls of enrich_and_clean
    registry,        \* the trained models that can be loaded
    train_status,    \* how the last training run ended
    session_model,   \* st.session_state.model (Absent before the first run)
    file,            \* the file in the uploader: an index of ServeFiles, or 0
    clicked,         \* the button clicked for the last script run
    calls,           \* the calls of model.predict made by the last script run
    msgs,            \* what the last script run showed
    loads,           \* the calls of mlflow.pyfunc.load_model made by the last script run
    pos, neg, spw,   \* the class counts of a training run and its class weight
    wf_pc,           \* test_workflow.main: the step to run next (1..6, 7 summary, 8 returned)
    results,         \* test_workflow.main: the (name, result) pairs appended so far
    roc_auc,         \* the ROC-AUC the evaluation step computed, in thousandths
    exit_status,     \* what test_workflow.main returned
    X_fit,           \* the categorical columns the preprocessor is fitted on
    fitted,          \* the fitted preprocessor
    x_new,           \* the categorical cells of a row at inference
    transformed      \* the preprocessor's output for that row

utilVars == <<arg, fn, ret>>
frameVars == <<heap, df_in, maps, out1, out2, pc>>
serveVars == <<registry, train_status, session_model, file, clicked, calls, msgs, loads>>
trainVars == <<pos, neg, spw>>
flowVars == <<wf_pc, results, roc_auc, exit_status>>
prepVars == <<X_fit, fitted, x_new, transformed>>
otherVars == <<trainVars, flowVars, prepVars>>
vars == <<arg, fn, ret, heap, df_in, maps, out1, out2, pc,
          registry, train_status, session_model, file, clicked, calls, msgs, loads,
          pos, neg, spw, wf_pc, results, roc_auc, exit_status,
          X_fit, fitted, x_new, transformed>>

(***************************************************************************)
(* Bounds                                                                  *)
(***************************************************************************)
MaxLen == 3
MaxAge == 12
MaxCode == 1000
MaxRows == 2
MaxModels == 2
MaxCount == 12
MaxCat == 3
MaxFit == 2

(***************************************************************************)
(* Cell values                                                             *)
(***************************************************************************)
NaN == [t |-> "nan", s |-> <<>>, n |-> 0, d |-> 1]
PyNone == [t |-> "none", s |-> <<>>, n |-> 0, d |-> 1]
Raised == [t |-> "raised", s |-> <<>>, n |-> 0, d |-> 1]
Str(cs) == [t |-> "str", s |-> cs, n |-> 0, d |-> 1]
Num(k) == [t |-> "num", s |-> <<>>, n |-> k, d |-> 1]
\* a / 2.0
HalfOf(a) == IF a % 2 = 0 THEN Num(a \div 2)
             ELSE [t |-> "num", s |-> <<>>, n |-> a, d |-> 2]

isinstance_str(x) == x.t = "str"
\* pd.isna on a scalar: NaN and None are missing
isna(x) == x.t \in {"nan", "none"}

(***************************************************************************)
(* Characters and the str methods the code uses                            *)
(***************************************************************************)
Whitespace == {" ", "\t"}
DigitChars == <<"0", "1", "2", "3", "4", "5", "6", "7", "8", "9">>
LowerLetters == <<"a", "b", "c", "d", "e", "f", "g", "h", "i", "j", "k", "l", "m",
                  "n", "o", "p", "q", "r", "s", "t", "u", "v", "w", "x", "y", "z">>
UpperLetters == <<"A", "B", "C", "D", "E", "F", "G", "H", "I", "J", "K", "L", "M",
                  "N", "O", "P", "Q", "R", "S", "T", "U", "V", "W", "X", "Y", "Z">>

IsDigit(c) == \E i \in 1..10 : DigitChars[i] = c
DigitVal(c) == (CHOOSE i \in 1..10 : DigitChars[i] = c) - 1

LowerChar(c) == IF \E i \in 1..26 : UpperLetters[i] = c
                THEN LowerLetters[CHOOSE i \in 1..26 : UpperLetters[i] = c]
                ELSE c
UpperChar(c) == IF \E i \in 1..26 : LowerLetters[i] = c
                THEN UpperLetters[CHOOSE i \in 1..26 : LowerLetters[i] = c]
                ELSE c

lower(s) == [i \in 1..Len(s) |-> LowerChar(s[i])]
upper(s) == [i \in 1..Len(s) |-> UpperChar(s[i])]
capitalize(s) == [i \in 1..Len(s) |-> IF i = 1 THEN UpperChar(s[i]) ELSE LowerChar(s[i])]

RECURSIVE lstrip(_)
lstrip(s) == IF s # <<>> /\ Head(s) \in Whitespace THEN lstrip(Tail(s)) ELSE s

RECURSIVE rstrip(_)
rstrip(s) == IF s # <<>> /\ s[Len(s)] \in Whitespace
             THEN rstrip(SubSeq(s, 1, Len(s) - 1)) ELSE s

strip(s) == rstrip(lstrip(s))

\* number of consecutive digits of s from position i on
FirstOf(S) == CHOOSE x \in S : \A y \in S : x <= y
DigitRun(s, i) ==
    LET stops == {j \in i..Len(s) : ~IsDigit(s[j])}
    IN  IF i > Len(s) THEN 0
        ELSE IF stops = {} THEN Len(s) + 1 - i
        ELSE FirstOf(stops) - i

\* int() of a string of digits
RECURSIVE int(_)
int(s) == IF s = <<>> THEN 0
          ELSE 10 * int(SubSeq(s, 1, Len(s) - 1)) + DigitVal(s[Len(s)])

\* s.split(".")[0]
split_dot_0(s) ==
    LET dots == {j \in 1..Len(s) : s[j] = "."}
    IN  IF dots = {} THEN s ELSE SubSeq(s, 1, FirstOf(dots) - 1)

\* str(n) for n >= 0
RECURSIVE Digits(_)
Digits(k) == IF k < 10 THEN <<DigitChars[k + 1]>>
             ELSE Digits(k \div 10) \o <<DigitChars[(k % 10) + 1]>>

(***************************************************************************)
(* float(): the grammar of Python's float() on a string without a decimal  *)
(* point (icd_to_chapter parses the part before the first "."): optional   *)
(* surrounding whitespace, optional sign, then digits with an optional     *)
(* exponent, or one of the words nan, inf, infinity in any case.  The      *)
(* value is (-1)^neg * m * 10^e.  ok = FALSE is ValueError.                *)
(***************************************************************************)
FloatFail == [ok |-> FALSE, kind |-> "fin", neg |-> FALSE, m |-> 0, e |-> 0]

ParseUnsigned(b, minus) ==
    LET n1 == DigitRun(b, 1)
        rest == SubSeq(b, n1 + 1, Len(b))
        hasSign == Len(rest) >= 2 /\ rest[2] \in {"+", "-"}
        expDigits == SubSeq(rest, IF hasSign THEN 3 ELSE 2, Len(rest))
    IN  IF lower(b) = <<"n", "a", "n">>
        THEN [ok |-> TRUE, kind |-> "nan", neg |-> minus, m |-> 0, e |-> 0]
        ELSE IF lower(b) \in {<<"i", "n", "f">>, <<"i", "n", "f", "i", "n", "i", "t", "y">>}
        THEN [ok |-> TRUE, kind |-> "inf", neg |-> minus, m |-> 0, e |-> 0]
        ELSE IF n1 = 0 THEN FloatFail
        ELSE IF rest = <<>>
        THEN [ok |-> TRUE, kind |-> "fin", neg |-> minus, m |-> int(SubSeq(b, 1, n1)), e |-> 0]
        ELSE IF /\ rest[1] \in {"e", "E"}
                /\ expDigits # <<>>
                /\ DigitRun(expDigits, 1) = Len(expDigits)
        THEN [ok |-> TRUE, kind |-> "fin", neg |-> minus, m |-> int(SubSeq(b, 1, n1)),
              e |-> IF hasSign /\ rest[2] = "-" THEN 0 - int(expDigits) ELSE int(expDigits)]
        ELSE FloatFail

float(s) ==
    LET b == strip(s)
    IN  IF b # <<>> /\ b[1] \in {"+", "-"}
        THEN ParseUnsigned(Tail(b), b[1] = "-")
        ELSE ParseUnsigned(b, FALSE)

RECURSIVE Pow10(_)
Pow10(k) == IF k = 0 THEN 1 ELSE 10 * Pow10(k - 1)

(***************************************************************************)
(* The chapter names, as Python strings                                    *)
(***************************************************************************)
s_infectious == <<"i", "n", "f", "e", "c", "t", "i", "o", "u", "s">>
s_neoplasms == <<"n", "e", "o", "p", "l", "a", "s", "m", "s">>
s_endocrine_metabolic == <<"e", "n", "d", "o", "c", "r", "i", "n", "e", "_", "m", "e", "t", "a", "b", "o", "l", "i", "c">>
s_blood == <<"b", "l", "o", "o", "d">>
s_mental == <<"m", "e", "n", "t", "a", "l">>
s_nervous == <<"n", "e", "r", "v", "o", "u", "s">>
s_circulatory == <<"c", "i", "r", "c", "u", "l", "a", "t", "o", "r", "y">>
s_respiratory == <<"r", "e", "s", "p", "i", "r", "a", "t", "o", "r", "y">>
s_digestive == <<"d", "i", "g", "e", "s", "t", "i", "v", "e">>
s_genitourinary == <<"g", "e", "n", "i", "t", "o", "u", "r", "i", "n", "a", "r", "y">>
s_pregnancy == <<"p", "r", "e", "g", "n", "a", "n", "c", "y">>
s_skin == <<"s", "k", "i", "n">>
s_musculoskeletal == <<"m", "u", "s", "c", "u", "l", "o", "s", "k", "e", "l", "e", "t", "a", "l">>
s_congenital == <<"c", "o", "n", "g", "e", "n", "i", "t", "a", "l">>
s_perinatal == <<"p", "e", "r", "i", "n", "a", "t", "a", "l">>
s_ill_defined == <<"i", "l", "l", "_", "d", "e", "f", "i", "n", "e", "d">>
s_injury == <<"i", "n", "j", "u", "r", "y">>
s_supplemental_v == <<"s", "u", "p", "p", "l", "e", "m", "e", "n", "t", "a", "l", "_", "v">>
s_supplemental_e == <<"s", "u", "p", "p", "l", "e", "m", "e", "n", "t", "a", "l", "_", "e">>
s_other == <<"o", "t", "h", "e", "r">>
s_unknown == <<"u", "n", "k", "n", "o", "w", "n">>

(***************************************************************************)
(* ICD_CHAPTERS, in the dict's insertion order                             *)
(***************************************************************************)
\* the table with two ranges that share code 139
ICD_CHAPTERS_overlapping == <<
    [name |-> s_infectious, lo |-> 1, hi |-> 139],
    [name |-> s_neoplasms, lo |-> 139, hi |-> 239],
    [name |-> s_endocrine_metabolic, lo |-> 240, hi |-> 279],
    [name |-> s_blood, lo |-> 280, hi |-> 289],
    [name |-> s_mental, lo |-> 290, hi |-> 319],
    [name |-> s_nervous, lo |-> 320, hi |-> 389],
    [name |-> s_circulatory, lo |-> 390, hi |-> 459],
    [name |-> s_respiratory, lo |-> 460, hi |-> 519],
    [name |-> s_digestive, lo |-> 520, hi |-> 579],
    [name |-> s_genitourinary, lo |-> 580, hi |-> 629],
    [name |-> s_pregnancy, lo |-> 630, hi |-> 679],
    [name |-> s_skin, lo |-> 680, hi |-> 709],
    [name |-> s_musculoskeletal, lo |-> 710, hi |-> 739],
    [name |-> s_congenital, lo |-> 740, hi |-> 759],
    [name |-> s_perinatal, lo |-> 760, hi |-> 779],
    [name |-> s_ill_defined, lo |-> 780, hi |-> 799],
    [name |-> s_injury, lo |-> 800, hi |-> 999] >>

ICD_CHAPTERS == <<
    [name |-> s_infectious, lo |-> 1, hi |-> 139],
    [name |-> s_neoplasms, lo |-> 140, hi |-> 239],
    [name |-> s_endocrine_metabolic, lo |-> 240, hi |-> 279],
    [name |-> s_blood, lo |-> 280, hi |-> 289],
    [name |-> s_mental, lo |-> 290, hi |-> 319],
    [name |-> s_nervous, lo |-> 320, hi |-> 389],
    [name |-> s_circulatory, lo |-> 390, hi |-> 459],
    [name |-> s_respiratory, lo |-> 460, hi |-> 519],
    [name |-> s_digestive, lo |-> 520, hi |-> 579],
    [name |-> s_genitourinary, lo |-> 580, hi |-> 629],
    [name |-> s_pregnancy, lo |-> 630, hi |-> 679],
    [name |-> s_skin, lo |-> 680, hi |-> 709],
    [name |-> s_musculoskeletal, lo |-> 710, hi |-> 739],
    [name |-> s_congenital, lo |-> 740, hi |-> 759],
    [name |-> s_perinatal, lo |-> 760, hi |-> 779],
    [name |-> s_ill_defined, lo |-> 780, hi |-> 799],
    [name |-> s_injury, lo |-> 800, hi |-> 999] >>

(***************************************************************************)
(* Comparison of a parsed float with an integer.  |x| = m * 10^e; fl is    *)
(* its floor, capped at Cap (above every bound of the table, so the cap    *)
(* never changes a comparison with a bound), and exact says x is integral. *)
(***************************************************************************)
Cap == 10 * ICD_CHAPTERS[Len(ICD_CHAPTERS)].hi

AbsFloor(x) ==
    IF x.m = 0 THEN 0
    ELSE IF x.e >= 0
    THEN IF x.e > 4 \/ x.m > Cap THEN Cap
         ELSE IF x.m * Pow10(x.e) > Cap THEN Cap ELSE x.m * Pow10(x.e)
    ELSE IF 0 - x.e > 8 THEN 0
    ELSE IF x.m \div Pow10(0 - x.e) > Cap THEN Cap ELSE x.m \div Pow10(0 - x.e)

AbsExact(x) ==
    \/ x.m = 0
    \/ x.e >= 0
    \/ 0 - x.e <= 8 /\ x.m % Pow10(0 - x.e) = 0

AbsLe(x, k) == k >= 0 /\ (AbsFloor(x) < k \/ (AbsFloor(x) = k /\ AbsExact(x)))
AbsGe(x, k) == k <= 0 \/ AbsFloor(x) >= k

\* lo <= x and x <= hi as Python compares a float with an int; every
\* comparison with nan is false
IntLeFloat(lo, x) ==
    CASE x.kind = "nan" -> FALSE
      [] x.kind = "inf" -> ~x.neg
      [] OTHER -> IF x.neg THEN AbsLe(x, 0 - lo) ELSE AbsGe(x, lo)

FloatLeInt(x, hi) ==
    CASE x.kind = "nan" -> FALSE
      [] x.kind = "inf" -> x.neg
      [] OTHER -> IF x.neg THEN AbsGe(x, 0 - hi) ELSE AbsLe(x, hi)

(***************************************************************************)
(* src/src/utils.py                                                        *)
(***************************************************************************)
\* re.match(r"\[(\d+)-(\d+)\)", s): a match anchored at the start only
re_match(s) ==
    LET n1 == DigitRun(s, 2)
        p == 2 + n1
        n2 == DigitRun(s, p + 1)
        q == p + 1 + n2
    IN  IF /\ Len(s) >= 1 /\ s[1] = "["
           /\ n1 >= 1
           /\ p <= Len(s) /\ s[p] = "-"
           /\ n2 >= 1
           /\ q <= Len(s) /\ s[q] = ")"
        THEN [matched |-> TRUE, g1 |-> SubSeq(s, 2, p - 1), g2 |-> SubSeq(s, p + 1, q - 1)]
        ELSE [matched |-> FALSE, g1 |-> <<>>, g2 |-> <<>>]

\* the most significant digits an int can have and still convert to a float:
\* sys.float_info.max is about 1.8e308.  (a + b) / 2.0 converts the int a + b,
\* and raises OverflowError when it is too large.
FloatMaxDigits == 309
RECURSIVE LeadingZeros(_, _)
LeadingZeros(ds, i) == IF i <= Len(ds) /\ ds[i] = "0" THEN 1 + LeadingZeros(ds, i + 1) ELSE 0
SigDigits(ds) == Len(ds) - LeadingZeros(ds, 1)

\* (digit groups of 10 to 309 significant digits are not among the inputs)
age_midpoint(age_bucket) ==
    IF isinstance_str(age_bucket) /\ re_match(strip(age_bucket.s)).matched
    THEN LET m == re_match(strip(age_bucket.s))
         IN  IF SigDigits(m.g1) > FloatMaxDigits \/ SigDigits(m.g2) > FloatMaxDigits
             THEN Raised
             ELSE HalfOf(int(m.g1) + int(m.g2))
    ELSE NaN

\* src/app_streamlit.py: age_mapping.get(age_bucket, 65), the value of the key
\* equal to the argument, 65 when no key is
age_mapping == <<
    [key |-> <<"[", "0", "-", "1", "0", ")">>, value |-> 5],
    [key |-> <<"[", "1", "0", "-", "2", "0", ")">>, value |-> 15],
    [key |-> <<"[", "2", "0", "-", "3", "0", ")">>, value |-> 25],
    [key |-> <<"[", "3", "0", "-", "4", "0", ")">>, value |-> 35],
    [key |-> <<"[", "4", "0", "-", "5", "0", ")">>, value |-> 45],
    [key |-> <<"[", "5", "0", "-", "6", "0", ")">>, value |-> 55],
    [key |-> <<"[", "6", "0", "-", "7", "0", ")">>, value |-> 65],
    [key |-> <<"[", "7", "0", "-", "8", "0", ")">>, value |-> 75],
    [key |-> <<"[", "8", "0", "-", "9", "0", ")">>, value |-> 85],
    [key |-> <<"[", "9", "0", "-", "1", "0", "0", ")">>, value |-> 95] >>

age_bucket_to_years(age_bucket) ==
    IF isinstance_str(age_bucket) /\ \E i \in 1..Len(age_mapping) : age_mapping[i].key = age_bucket.s
    THEN Num(age_mapping[CHOOSE i \in 1..Len(age_mapping) : age_mapping[i].key = age_bucket.s].value)
    ELSE Num(65)

\* the loop with the lower bound of each range excluded (lo < x <= hi)
RECURSIVE chapter_loop_open_lo(_, _)
chapter_loop_open_lo(x, i) ==
    IF i > Len(ICD_CHAPTERS) THEN s_other
    ELSE IF IntLeFloat(ICD_CHAPTERS[i].lo + 1, x) /\ FloatLeInt(x, ICD_CHAPTERS[i].hi)
    THEN ICD_CHAPTERS[i].name
    ELSE chapter_loop_open_lo(x, i + 1)

\* the for loop over ICD_CHAPTERS.items(): the first range that contains x
RECURSIVE chapter_loop(_, _)
chapter_loop(x, i) ==
    IF i > Len(ICD_CHAPTERS) THEN s_other
    ELSE IF IntLeFloat(ICD_CHAPTERS[i].lo, x) /\ FloatLeInt(x, ICD_CHAPTERS[i].hi)
    THEN ICD_CHAPTERS[i].name
    ELSE chapter_loop(x, i + 1)


icd_to_chapter(icd) ==
    IF ~isinstance_str(icd) \/ strip(icd.s) \in {<<"?">>, <<>>}
    THEN Str(s_unknown)
    ELSE LET s == strip(icd.s)
         IN  IF s = <<>> THEN Raised   \* s[0] on an empty string: IndexError
             ELSE IF s[1] \in {"V", "v"} THEN Str(s_supplemental_v)
             ELSE IF s[1] \in {"E", "e"} THEN Str(s_supplemental_e)
             ELSE IF ~float(split_dot_0(s)).ok THEN Str(s_unknown)
             ELSE Str(chapter_loop(float(split_dot_0(s)), 1))

s_NULL == <<"N", "U", "L", "L">>
s_Not_Available == <<"N", "o", "t", " ", "A", "v", "a", "i", "l", "a", "b", "l", "e">>
s_none == <<"n", "o", "n", "e">>
s_no == <<"n", "o">>
s_No == <<"N", "o">>
s_lt30 == <<"<", "3", "0">>

\* the normalizer without x = x.strip(): tokens are recognised, the cell is
\* returned untrimmed
clean_special_strings_no_strip(x) ==
    IF isna(x) THEN NaN
    ELSE IF isinstance_str(x)
    THEN LET y == strip(x.s)
         IN  IF y \in {<<"?">>, s_NULL, s_Not_Available} THEN NaN
             ELSE IF lower(y) \in {s_none, s_no}
             THEN IF lower(y) = s_none THEN Str(capitalize(y)) ELSE Str(s_No)
             ELSE x
    ELSE x

\* the normalizer returning a "none" variant as it came, without capitalize()
clean_special_strings_no_capitalize(x) ==
    IF isna(x) THEN NaN
    ELSE IF isinstance_str(x)
    THEN LET y == strip(x.s)
         IN  IF y \in {<<"?">>, s_NULL, s_Not_Available} THEN NaN
             ELSE IF lower(y) \in {s_none, s_no}
             THEN IF lower(y) = s_none THEN Str(y) ELSE Str(s_No)
             ELSE Str(y)
    ELSE x

clean_special_strings(x) ==
    IF isna(x) THEN NaN
    ELSE IF isinstance_str(x)
    THEN LET y == strip(x.s)
         IN  IF y \in {<<"?">>, s_NULL, s_Not_Available} THEN NaN
             ELSE IF lower(y) \in {s_none, s_no}
             THEN IF lower(y) = s_none THEN Str(capitalize(y)) ELSE Str(s_No)
             ELSE Str(y)
    ELSE x

\* the label mapping without strip()
map_readmitted_no_strip(label) ==
    IF ~isinstance_str(label) THEN Num(0)
    ELSE IF upper(label.s) = s_lt30 THEN Num(1)
    ELSE Num(0)

map_readmitted(label) ==
    IF ~isinstance_str(label) THEN Num(0)
    ELSE IF upper(strip(label.s)) = s_lt30 THEN Num(1)
    ELSE Num(0)

(***************************************************************************)
(* Inputs of the cell-level functions                                      *)
(***************************************************************************)
Alphabet == {" ", "?", "V", "e", "2", ".", "-", "n", "o", "N"}
ShortStrings == UNION {[1..k -> Alphabet] : k \in 0..MaxLen}

Pads(s) == {s, <<" ">> \o s, s \o <<" ">>, <<"\t">> \o s \o <<" ", " ">>}

BucketString(lo, hi) == <<"[">> \o Digits(lo) \o <<"-">> \o Digits(hi) \o <<")">>
\* the ten buckets of the dataset, "[0-10)" .. "[90-100)"
DatasetBuckets == {BucketString(10 * k, 10 * k + 10) : k \in 0..9}
Buckets == {BucketString(lo, hi) : lo \in 0..MaxAge, hi \in 0..MaxAge} \cup DatasetBuckets
Tails == {<<"x">>, <<")">>, <<"0">>, <<" ", "y">>}
DropAt(s, i) == SubSeq(s, 1, i - 1) \o SubSeq(s, i + 1, Len(s))
\* a bucket whose lower bound has one digit more than a float can hold
HugeBucket == <<"[">> \o [i \in 1..(FloatMaxDigits + 1) |-> "9"] \o <<"-", "0", ")">>
BucketInputs ==
    UNION {Pads(b) : b \in Buckets}
      \cup {HugeBucket}
      \cup {b \o t : b \in Buckets, t \in Tails}
      \cup {DropAt(b, i) : b \in DatasetBuckets, i \in 1..6}
      \cup {<<"0">> \o b : b \in DatasetBuckets}
      \cup {<<"[", "0", "7", "-", "0", "9", ")">>}

CaseVariants(w) ==
    {[i \in 1..Len(w) |-> IF b[i] THEN UpperChar(w[i]) ELSE LowerChar(w[i])] :
        b \in [1..Len(w) -> BOOLEAN]}
TokenInputs ==
    UNION {Pads(w) : w \in {<<"?">>, s_NULL, s_Not_Available} \cup CaseVariants(s_none)
                             \cup CaseVariants(s_no) \cup CaseVariants(s_NULL)}
      \cup {<<"n", "o", "n">>, <<"N", "o", "r", "m">>, <<"n", "o", "n", "e", "s">>,
            <<"S", "t", "e", "a", "d", "y">>, <<">", "2", "0", "0">>,
            <<"N", "o", "t", "A", "v", "a", "i", "l", "a", "b", "l", "e">>}

Fractions == {<<>>, <<".", "0", "3">>, <<".">>}
CodeInputs ==
    {Digits(c) \o f : c \in 0..MaxCode, f \in Fractions}
      \cup UNION {Pads(Digits(c)) : c \in {0, 1, 139, 140, 250, 999}}
      \cup {<<"9", "9", "9", "9">>, <<"V", "4", "5">>, <<"v", "5", "7">>,
            <<"E", "9", "0", "0">>, <<"e", "8", "8">>, <<" ", "V", "1">>,
            <<"1", "e", "2">>, <<"2", "5", "E", "1">>, <<"1", "3", "9", "5", "e", "-", "1">>,
            <<"2", "5", "0", "0", "e", "-", "1">>, <<"-", "2", "5", "0">>, <<"+", "2", "5", "0">>,
            <<"2", "5", " ", ".", "3">>, <<".", "5">>, <<"n", "a", "n">>, <<"i", "n", "f">>,
            <<"-", "I", "n", "f">>, <<"2", "5", "0", "x">>, <<"x", "2", "5", "0">>,
            <<"1", "e">>, <<"1", "e", "+">>, <<"1", "e", "9", "9">>, <<"4", "1", "0">>}

LabelInputs ==
    Pads(s_lt30) \cup {<<">", "3", "0">>, <<"N", "O">>, <<"<", "3">>, <<"<", "3", "0", "0">>,
                       <<"3", "0">>, <<"<", " ", "3", "0">>, <<"<", "3", "0", ">">>}

NonStrings == {NaN, PyNone, Num(0), Num(1), Num(65), Num(250), HalfOf(5)}

Inputs ==
    NonStrings \cup {Str(s) : s \in ShortStrings \cup BucketInputs \cup TokenInputs
                                  \cup CodeInputs \cup LabelInputs}

(***************************************************************************)
(* Calls of the cell-level functions: one call on one input                *)
(***************************************************************************)
IdleUtils == arg = NaN /\ fn = "none" /\ ret = NaN
IdleFrames ==
    /\ heap = <<>> /\ df_in = 0 /\ maps = <<0, 0, 0>>
    /\ out1 = 0 /\ out2 = 0 /\ pc = "idle"

Absent == [kind |-> "absent", features |-> <<>>, data |-> 0, lookups |-> 0,
           pos |-> 0, neg |-> 0, spw |-> <<1, 1>>]
IdleServe ==
    /\ registry = {} /\ train_status = "none" /\ session_model = Absent
    /\ file = 0 /\ clicked = "none" /\ calls = {} /\ msgs = {} /\ loads = 0
NotComputed == <<0, 0>>
IdleTrain == pos = 0 /\ neg = 0 /\ spw = NotComputed
NoAuc == 0 - 1
NoStatus == 0 - 1
IdleFlow == wf_pc = 0 /\ results = <<>> /\ roc_auc = NoAuc /\ exit_status = NoStatus
NotFitted == [kind |-> "not fitted"]
NotTransformed == [kind |-> "not transformed"]
IdlePrep == X_fit = <<>> /\ fitted = NotFitted /\ x_new = <<>> /\ transformed = NotTransformed
IdleOther == IdleTrain /\ IdleFlow /\ IdlePrep

InitUtils ==
    /\ arg \in Inputs
    /\ fn = "none"
    /\ ret = NaN
    /\ IdleFrames
    /\ IdleServe
    /\ IdleOther

call_age_midpoint ==
    /\ fn = "none"
    /\ fn' = "age_midpoint"
    /\ ret' = age_midpoint(arg)
    /\ UNCHANGED <<arg, frameVars, serveVars, otherVars>>

call_age_bucket_to_years ==
    /\ fn = "none"
    /\ fn' = "age_bucket_to_years"
    /\ ret' = age_bucket_to_years(arg)
    /\ UNCHANGED <<arg, frameVars, serveVars, otherVars>>

call_icd_to_chapter ==
    /\ fn = "none"
    /\ fn' = "icd_to_chapter"
    /\ ret' = icd_to_chapter(arg)
    /\ UNCHANGED <<arg, frameVars, serveVars, otherVars>>

call_clean_special_strings ==
    /\ fn = "none"
    /\ fn' = "clean_special_strings"
    /\ ret' = clean_special_strings(arg)
    /\ UNCHANGED <<arg, frameVars, serveVars, otherVars>>

call_map_readmitted ==
    /\ fn = "none"
    /\ fn' = "map_readmitted"
    /\ ret' = map_readmitted(arg)
    /\ UNCHANGED <<arg, frameVars, serveVars, otherVars>>

NextUtils ==
    \/ call_age_midpoint
    \/ call_age_bucket_to_years
    \/ call_icd_to_chapter
    \/ call_clean_special_strings
    \/ call_map_readmitted

SpecUtils == InitUtils /\ [][NextUtils]_vars

(***************************************************************************)
(* Properties of the cell-level functions (checked under SpecUtils)        *)
(***************************************************************************)
IsWs(s) == \A i \in 1..Len(s) : s[i] \in Whitespace
IsBlank(s) == IsWs(s)
\* s without the whitespace around it
Core(s) ==
    LET ix == {i \in 1..Len(s) : s[i] \notin Whitespace}
    IN  IF ix = {} THEN <<>>
        ELSE SubSeq(s, CHOOSE i \in ix : \A j \in ix : i <= j,
                       CHOOSE i \in ix : \A j \in ix : i >= j)
TrimsTo(s, core) == Core(s) = core
\* s is "[" digits "-" digits ")" and nothing else
IsBucketForm(s) ==
    \E p \in 3..(Len(s) - 2) :
        /\ s[1] = "[" /\ s[p] = "-" /\ s[Len(s)] = ")"
        /\ \A i \in 2..(p - 1) : IsDigit(s[i])
        /\ \A i \in (p + 1)..(Len(s) - 1) : IsDigit(s[i])
IsPaddedBucket(s) == IsBucketForm(Core(s))
BucketTable == [lo \in 0..MaxAge |-> [hi \in 0..MaxAge |-> BucketString(lo, hi)]]
DatasetBucketTable == [k \in 0..9 |-> BucketString(10 * k, 10 * k + 10)]

\* C3: age_midpoint returns exactly (lo+hi)/2 for every string "[lo-hi)" and
\* NaN, without raising, for every other input (a non-string, or a string that
\* is not of that form, surrounding whitespace aside).
C3_AgeMidpointFormOrNaN ==
    fn = "age_midpoint" =>
        /\ \A lo \in 0..MaxAge : \A hi \in 0..MaxAge :
              (isinstance_str(arg) /\ TrimsTo(arg.s, BucketTable[lo][hi]))
                  => (ret.t = "num" /\ 2 * ret.n = (lo + hi) * ret.d)
        /\ \A k \in 0..9 :
              (isinstance_str(arg) /\ TrimsTo(arg.s, DatasetBucketTable[k]))
                  => (ret.t = "num" /\ 2 * ret.n = (20 * k + 10) * ret.d)
        /\ ~(isinstance_str(arg) /\ IsPaddedBucket(arg.s)) => ret = NaN

Chapters21 == {s_infectious, s_neoplasms, s_endocrine_metabolic, s_blood, s_mental,
               s_nervous, s_circulatory, s_respiratory, s_digestive, s_genitourinary,
               s_pregnancy, s_skin, s_musculoskeletal, s_congenital, s_perinatal,
               s_ill_defined, s_injury, s_supplemental_v, s_supplemental_e, s_other,
               s_unknown}
ExpectedChapter(c) ==
    IF \E i \in 1..Len(ICD_CHAPTERS) : ICD_CHAPTERS[i].lo <= c /\ c <= ICD_CHAPTERS[i].hi
    THEN ICD_CHAPTERS[CHOOSE i \in 1..Len(ICD_CHAPTERS) :
                          ICD_CHAPTERS[i].lo <= c /\ c <= ICD_CHAPTERS[i].hi].name
    ELSE s_other
\* every code 0..MaxCode written in decimal, with and without a fraction, and
\* the chapter its integer part belongs to
CodeTable == {[s |-> Digits(c) \o f, chapter |-> ExpectedChapter(c)] :
                 c \in 0..MaxCode, f \in Fractions}
HasDigit(s) == \E i \in 1..Len(s) : IsDigit(s[i])
FloatWords == {<<"n", "a", "n">>, <<"i", "n", "f">>, <<"i", "n", "f", "i", "n", "i", "t", "y">>}
FirstNonBlank(s) == lstrip(s)[1]

\* C4: icd_to_chapter is total into the 21 chapters and never raises; a first
\* non-blank character V/v gives supplemental_v, E/e supplemental_e; otherwise
\* the integer part before the decimal point selects the chapter whose closed
\* range contains it, or other when no range does; blank, "?", non-string or
\* unparsable input gives unknown.
C4_IcdToChapterTotal ==
    fn = "icd_to_chapter" =>
        /\ ret.t = "str" /\ ret.s \in Chapters21
        /\ (~isinstance_str(arg) \/ IsBlank(arg.s) \/ TrimsTo(arg.s, <<"?">>))
              => ret = Str(s_unknown)
        /\ (isinstance_str(arg) /\ ~IsBlank(arg.s) /\ FirstNonBlank(arg.s) \in {"V", "v"})
              => ret = Str(s_supplemental_v)
        /\ (isinstance_str(arg) /\ ~IsBlank(arg.s) /\ FirstNonBlank(arg.s) \in {"E", "e"})
              => ret = Str(s_supplemental_e)
        /\ isinstance_str(arg) =>
              LET core == Core(arg.s)
              IN  \A e \in CodeTable : e.s = core => ret = Str(e.chapter)
        /\ arg = Str(<<"2", "5", "0", ".", "0", "3">>) => ret = Str(s_endocrine_metabolic)
        /\ arg = Str(<<"9", "9", "9">>) => ret = Str(s_injury)
        /\ arg \in {Str(<<"9", "9", "9", "9">>), Str(<<"0">>)} => ret = Str(s_other)
        /\ (/\ isinstance_str(arg) /\ ~IsBlank(arg.s)
            /\ FirstNonBlank(arg.s) \notin {"V", "v", "E", "e"}
            /\ ~HasDigit(split_dot_0(arg.s))
            /\ \A w \in FloatWords : ~TrimsTo(lower(arg.s), w)
            /\ \A w \in FloatWords : ~TrimsTo(lower(arg.s), <<"-">> \o w))
              => ret = Str(s_unknown)

C4_Witness ==
    /\ fn = "icd_to_chapter"
    /\ arg = Str(<<"2", "5", "0", ".", "0", "3">>)
    /\ ret = Str(s_endocrine_metabolic)

\* C5: clean_special_strings maps "?", "NULL" and "Not Available" to missing,
\* every case variant of "none" to "None", every case variant of "no" to "No",
\* and an already-missing value to missing.
C5_CleanTokens ==
    fn = "clean_special_strings" =>
        /\ \A w \in {<<"?">>, s_NULL, s_Not_Available} :
              (isinstance_str(arg) /\ TrimsTo(arg.s, w)) => ret = NaN
        /\ \A w \in CaseVariants(s_none) :
              (isinstance_str(arg) /\ TrimsTo(arg.s, w)) => ret = Str(<<"N", "o", "n", "e">>)
        /\ \A w \in CaseVariants(s_no) :
              (isinstance_str(arg) /\ TrimsTo(arg.s, w)) => ret = Str(<<"N", "o">>)
        /\ arg \in {NaN, PyNone} => ret = NaN

C5_Witness ==
    /\ fn = "clean_special_strings"
    /\ arg = Str(<<"N", "O", "N", "E">>)
    /\ ret = Str(<<"N", "o", "n", "e">>)

\* C6 as claimed: the empty string and every whitespace-only string are
\* normalized to missing.
C6_BlankIsMissing ==
    (fn = "clean_special_strings" /\ isinstance_str(arg) /\ IsBlank(arg.s)) => ret = NaN

\* C6 as amended: the empty string and every whitespace-only string are
\* normalized to the empty string, which is not the missing marker; only a
\* cell that is already missing, or a sentinel token, comes back missing.
C6_BlankIsEmptyString ==
    (fn = "clean_special_strings" /\ isinstance_str(arg) /\ IsBlank(arg.s))
        => (ret = Str(<<>>) /\ ~isna(ret))

C6_Witness ==
    /\ fn = "clean_special_strings"
    /\ arg = Str(<<" ", " ">>)
    /\ ret = Str(<<>>)

\* C7: map_readmitted returns 1 exactly when the label is a string equal to
\* "<30" after trimming surrounding whitespace, and 0 for every other input.
C7_MapReadmitted ==
    fn = "map_readmitted" =>
        ret = IF isinstance_str(arg) /\ TrimsTo(arg.s, <<"<", "3", "0">>) THEN Num(1) ELSE Num(0)

C7_Witness ==
    /\ fn = "map_readmitted"
    /\ arg = Str(<<" ", "<", "3", "0">>)
    /\ ret = Num(1)

\* C18: on every input, a string or not, one of the form's ten buckets or
\* not, age_bucket_to_years and age_midpoint return the same value.
C18_AgeBucketToYearsIsMidpoint ==
    /\ fn = "age_bucket_to_years" => ret = age_midpoint(arg)
    /\ fn = "age_midpoint" => ret = age_bucket_to_years(arg)

\* the ranges of the table, taken two by two, and the codes 1..999
FirstCode == 1
LastCode == 999
RangesDisjoint ==
    \A i, j \in 1..Len(ICD_CHAPTERS) :
        i # j => (ICD_CHAPTERS[i].hi < ICD_CHAPTERS[j].lo \/ ICD_CHAPTERS[j].hi < ICD_CHAPTERS[i].lo)
Matching(c) == {i \in 1..Len(ICD_CHAPTERS) : ICD_CHAPTERS[i].lo <= c /\ c <= ICD_CHAPTERS[i].hi}
RangesCover == \A c \in FirstCode..LastCode : Matching(c) # {}
IsIntegerCode(x) ==
    /\ isinstance_str(x)
    /\ Len(x.s) \in 1..3
    /\ \A i \in 1..Len(x.s) : IsDigit(x.s[i])

\* C16: the ranges of ICD_CHAPTERS are pairwise disjoint and cover 1..999, so
\* exactly one range matches an integer code of 1..999, and icd_to_chapter
\* returns that range's chapter, whether the table is scanned from its first
\* entry or from its last.
C16_RangesPartitionCodes ==
    /\ RangesDisjoint
    /\ RangesCover
    /\ (fn = "icd_to_chapter" /\ IsIntegerCode(arg) /\ int(arg.s) >= FirstCode) =>
          LET m == Matching(int(arg.s))
          IN  /\ Cardinality(m) = 1
              /\ ret = Str(ICD_CHAPTERS[CHOOSE i \in m : \A k \in m : i <= k].name)
              /\ ret = Str(ICD_CHAPTERS[CHOOSE i \in m : \A k \in m : i >= k].name)

\* the call on "800", the first code of the last range
C16_Witness ==
    /\ fn = "icd_to_chapter"
    /\ arg = Str(<<"8", "0", "0">>)
    /\ ret = Str(s_injury)
    /\ Matching(800) = {Len(ICD_CHAPTERS)}

(***************************************************************************)
(* Data frames.  A frame is [cols, rows]: cols the column names in order,  *)
(* rows a sequence of functions from the column names to cell values.      *)
(* Frames live in a heap (a sequence of frames; a reference is an index),  *)
(* so that a method that works in place and one that returns a new frame   *)
(* are different things.                                                   *)
(***************************************************************************)
ColSet(f) == {f.cols[i] : i \in 1..Len(f.cols)}
HasCol(f, c) == c \in ColSet(f)

\* df[c] = vals: an existing column keeps its place, a new one is appended
SetCol(f, c, vals) ==
    [cols |-> IF HasCol(f, c) THEN f.cols ELSE Append(f.cols, c),
     rows |-> [i \in 1..Len(f.rows) |->
                 [k \in ColSet(f) \cup {c} |-> IF k = c THEN vals[i] ELSE f.rows[i][k]]]]

\* df.drop(columns=c)
DropCol(f, c) ==
    LET Keep(k) == k # c
    IN  [cols |-> SelectSeq(f.cols, Keep),
         rows |-> [i \in 1..Len(f.rows) |-> [k \in ColSet(f) \ {c} |-> f.rows[i][k]]]]

\* df.rename(columns={old: new})
RenameCol(f, old, new) ==
    [cols |-> [i \in 1..Len(f.cols) |-> IF f.cols[i] = old THEN new ELSE f.cols[i]],
     rows |-> [i \in 1..Len(f.rows) |->
                 [k \in (ColSet(f) \ {old}) \cup (IF HasCol(f, old) THEN {new} ELSE {}) |->
                     IF k = new /\ HasCol(f, old) THEN f.rows[i][old] ELSE f.rows[i][k]]]]

\* the suffixes pandas gives to a non-key column present on both sides of a
\* merge; the only columns that can be on both sides are the descriptions
suffix_x(c) ==
    CASE c = "admission_type_desc" -> "admission_type_desc_x"
      [] c = "discharge_disposition_desc" -> "discharge_disposition_desc_x"
      [] c = "admission_source_desc" -> "admission_source_desc_x"
      [] OTHER -> c
suffix_y(c) ==
    CASE c = "admission_type_desc" -> "admission_type_desc_y"
      [] c = "discharge_disposition_desc" -> "discharge_disposition_desc_y"
      [] c = "admission_source_desc" -> "admission_source_desc_y"
      [] OTHER -> c

\* the names of the merged frame's columns: the left columns, then the
\* right columns other than the key; a non-key name on both sides is suffixed
left_name(right, key, c) ==
    IF c # key /\ c \in ColSet(right) THEN suffix_x(c) ELSE c
right_name(left, c) == IF c \in ColSet(left) THEN suffix_y(c) ELSE c
right_cols(right, key) ==
    LET NotKey(c) == c # key
    IN  SelectSeq(right.cols, NotKey)
merge_cols(left, right, key) ==
    [i \in 1..Len(left.cols) |-> left_name(right, key, left.cols[i])]
      \o [i \in 1..Len(right_cols(right, key)) |-> right_name(left, right_cols(right, key)[i])]

\* one row of the merged frame, from a left row and a right row
join_row(left, right, key, lr, rr) ==
    [k \in {merge_cols(left, right, key)[i] : i \in 1..Len(merge_cols(left, right, key))} |->
        IF \E c \in ColSet(left) : left_name(right, key, c) = k
        THEN lr[CHOOSE c \in ColSet(left) : left_name(right, key, c) = k]
        ELSE rr[CHOOSE c \in ColSet(right) \ {key} : right_name(left, c) = k]]

\* left.merge(right, how="left", left_on=key, right_on=key): for each left
\* row in order, one row per right row with an equal key, in the right
\* frame's order, or one row with missing right columns when there is none
RECURSIVE merge_rows(_, _, _, _)
merge_rows(left, right, key, i) ==
    IF i > Len(left.rows) THEN <<>>
    ELSE LET lr == left.rows[i]
             Match(rr) == rr[key] = lr[key]
             ms == SelectSeq(right.rows, Match)
             nomatch == [k \in ColSet(right) |-> NaN]
         IN  (IF ms = <<>> THEN <<join_row(left, right, key, lr, nomatch)>>
              ELSE [j \in 1..Len(ms) |-> join_row(left, right, key, lr, ms[j])])
             \o merge_rows(left, right, key, i + 1)

merge_left(left, right, key) ==
    [cols |-> merge_cols(left, right, key), rows |-> merge_rows(left, right, key, 1)]

\* pd.to_numeric(x, errors="coerce") on one cell: a number stays, a string
\* holding an integer becomes that integer, any other string and a missing
\* cell become NaN.  (The cells of the numeric columns are integers, integer
\* strings and strings that are not numbers.)
to_numeric(x) ==
    IF x.t = "num" THEN x
    ELSE IF isinstance_str(x) /\ float(x.s).ok /\ float(x.s).kind = "fin" /\ float(x.s).e = 0
                              /\ x.s = split_dot_0(x.s)
    THEN Num(IF float(x.s).neg THEN 0 - float(x.s).m ELSE float(x.s).m)
    ELSE NaN

(***************************************************************************)
(* src/src/data_preprocessing.py: enrich_and_clean.  A step takes and      *)
(* returns [heap, df]: the heap and the frame the local name df is bound   *)
(* to.  None is reference 0.                                               *)
(***************************************************************************)
None == 0

numeric_like == <<"time_in_hospital", "num_lab_procedures", "num_procedures",
                  "num_medications", "number_outpatient", "number_emergency",
                  "number_inpatient", "number_diagnoses", "weight">>

\* the drop list without the raw age bucket
drop_cols_keep_age == <<"encounter_id", "patient_nbr", "payer_code", "medical_specialty",
                        "diag_1", "diag_2", "diag_3">>

drop_cols == <<"encounter_id", "patient_nbr", "payer_code", "medical_specialty",
               "age", "diag_1", "diag_2", "diag_3">>

diag_cols == <<"diag_1", "diag_2", "diag_3">>
chapter_col(dcol) ==
    CASE dcol = "diag_1" -> "diag_1_chapter"
      [] dcol = "diag_2" -> "diag_2_chapter"
      [] dcol = "diag_3" -> "diag_3_chapter"

\* the frame df is bound to, and an in-place change of it; exc tells that an
\* exception is propagating, and then no later statement runs
Df(st) == st.heap[st.df]
InPlace(st, f) == IF st.exc THEN st ELSE [st EXCEPT !.heap[st.df] = f]
NewFrame(st, f) ==
    IF st.exc THEN st
    ELSE [heap |-> Append(st.heap, f), df |-> Len(st.heap) + 1, exc |-> FALSE]

\* df[new] = df[c].apply(fn), f being the frame with the column set: a call of
\* fn that raises leaves the frame as it was and ends the function
HasRaised(f) == \E r \in 1..Len(f.rows) : \E c \in ColSet(f) : f.rows[r][c] = Raised
Assign(st, f) ==
    IF st.exc THEN st
    ELSE IF HasRaised(f) THEN [st EXCEPT !.exc = TRUE]
    ELSE InPlace(st, f)

\* df = df with no copy made: the local name stays bound to the argument
df_copy_alias(st) == st

\* df = df.copy()
df_copy(st) == NewFrame(st, st.heap[st.df])

\* for c in df.columns: df[c] = df[c].apply(clean_special_strings): every
\* cell of every column is normalized
Clean(f) ==
    [cols |-> f.cols,
     rows |-> [r \in 1..Len(f.rows) |->
                 [c \in ColSet(f) |-> clean_special_strings(f.rows[r][c])]]]

\* if map is not None and key in df: df = df.merge(map.rename(...), how="left", ...)
\* rename and merge each return a new frame
join_map(st, map, key, desc) ==
    IF ~st.exc /\ map # None /\ HasCol(Df(st), key)
    THEN NewFrame(st, merge_left(Df(st), RenameCol(st.heap[map], "description", desc), key))
    ELSE st

\* if "age" in df: df["age_years"] = df["age"].apply(age_midpoint)
add_age_years(f) ==
    IF HasCol(f, "age")
    THEN SetCol(f, "age_years", [r \in 1..Len(f.rows) |-> age_midpoint(f.rows[r]["age"])])
    ELSE f

\* if dcol in df: df[f"{dcol}_chapter"] = df[dcol].apply(icd_to_chapter)
add_chapter(f, dcol) ==
    IF HasCol(f, dcol)
    THEN SetCol(f, chapter_col(dcol), [r \in 1..Len(f.rows) |-> icd_to_chapter(f.rows[r][dcol])])
    ELSE f

\* for dcol in ["diag_1", "diag_2", "diag_3"]: each iteration works on the
\* frame the one before left
Chapters(f) ==
    CHOOSE f3 \in {add_chapter(f2, diag_cols[3]) :
                     f2 \in {add_chapter(f1, diag_cols[2]) :
                               f1 \in {add_chapter(f, diag_cols[1])}}} : TRUE

\* for c in numeric_like: if c in df: df[c] = pd.to_numeric(df[c], errors="coerce")
Cast(f) ==
    [cols |-> f.cols,
     rows |-> [r \in 1..Len(f.rows) |->
                 [c \in ColSet(f) |->
                     IF \E i \in 1..Len(numeric_like) : numeric_like[i] = c
                     THEN to_numeric(f.rows[r][c]) ELSE f.rows[r][c]]]]

\* for c in drop_cols: if c in df: df.drop(columns=c, inplace=True)
Drop(f) ==
    LET Kept(c) == \A i \in 1..Len(drop_cols) : drop_cols[i] # c
    IN  [cols |-> SelectSeq(f.cols, Kept),
         rows |-> [r \in 1..Len(f.rows) |->
                     [c \in {k \in ColSet(f) : Kept(k)} |-> f.rows[r][c]]]]

\* the whole function, statement after statement, each on the state the one
\* before left; the result is [heap, df, exc] with df the returned frame when
\* exc is FALSE, and exc TRUE when the call raised
enrich_and_clean(h, df, adm_type_map, disch_map, adm_src_map) ==
    CHOOSE s8 \in
      {InPlace(s7, Drop(Df(s7))) : s7 \in
      {InPlace(s6, Cast(Df(s6))) : s6 \in
      {Assign(s5, Chapters(Df(s5))) : s5 \in
      {Assign(s4, add_age_years(Df(s4))) : s4 \in
      {join_map(s3, adm_src_map, "admission_source_id", "admission_source_desc") : s3 \in
      {join_map(s2, disch_map, "discharge_disposition_id", "discharge_disposition_desc") : s2 \in
      {join_map(s1, adm_type_map, "admission_type_id", "admission_type_desc") : s1 \in
      {InPlace(s0, Clean(Df(s0))) : s0 \in
      {df_copy([heap |-> h, df |-> df, exc |-> FALSE])}}}}}}}}} : TRUE

(***************************************************************************)
(* Raw encounter frames and lookup tables                                  *)
(***************************************************************************)
RawColumns == <<"encounter_id", "age", "admission_type_id", "discharge_disposition_id",
                "admission_source_id", "time_in_hospital", "payer_code",
                "diag_1", "diag_2", "diag_3", "max_glu_serum", "readmitted">>

RawRow(age, adm_type, time, payer, d1, d2, d3, glu, readmitted) ==
    [c \in {RawColumns[i] : i \in 1..Len(RawColumns)} |->
        CASE c = "encounter_id" -> Num(2278392)
          [] c = "age" -> age
          [] c = "admission_type_id" -> adm_type
          [] c = "discharge_disposition_id" -> Num(1)
          [] c = "admission_source_id" -> Num(7)
          [] c = "time_in_hospital" -> time
          [] c = "payer_code" -> payer
          [] c = "diag_1" -> d1
          [] c = "diag_2" -> d2
          [] c = "diag_3" -> d3
          [] c = "max_glu_serum" -> glu
          [] c = "readmitted" -> readmitted]

SampleRows == {
    RawRow(Str(<<"[", "6", "0", "-", "7", "0", ")">>), Num(1), Num(4), Str(<<"M", "C">>),
           Str(<<"2", "5", "0", ".", "0", "3">>), Str(<<"4", "1", "0">>), Str(<<"?">>), Str(<<"N", "o", "n", "e">>), Str(<<"<", "3", "0">>)),
    RawRow(Str(<<"[", "0", "-", "1", "0", ")">>), Num(5), Str(<<"7">>), Str(<<"?">>),
           Str(<<"V", "4", "5">>), Str(<<"E", "9", "0", "0">>), Str(<<"9", "9", "9">>), Str(<<"n", "o", "n", "e">>), Str(<<"N", "O">>)),
    RawRow(Str(<<"?">>), Num(9), Str(<<"a", "b", "c">>), Str(<<"?">>),
           Str(<<"?">>), Str(<<"9", "9", "9", "9">>), Str(<<"0">>), Str(<<">", "2", "0", "0">>), Str(<<">", "3", "0">>)),
    RawRow(Str(<<" ", "[", "9", "0", "-", "1", "0", "0", ")", " ">>), NaN, NaN, Str(<<"M", "C">>),
           Str(<<"1", "3", "9">>), Str(<<"1", "4", "0", ".", "5">>), Str(<<" ", "2", "5", "0">>), Str(<<"N", "O", "N", "E">>), Str(<<" ", "<", "3", "0", " ">>)),
    RawRow(Str(<<"[", "5", "-", "1", "0", ")">>), Num(1), Num(12), Str(<<"N", "U", "L", "L">>),
           Str(<<"7", "9", "9", ".", "9">>), Str(<<"v", "5", "7">>), Str(<<>>), Str(<<"N", "o", "r", "m">>), Str(<<"n", "o">>)),
    RawRow(Str(HugeBucket), Num(1), Num(4), Str(<<"M", "C">>),
           Str(<<"1", "3", "9">>), Str(<<"9", "9", "9">>), Str(<<"0">>), Str(<<"N", "o", "n", "e">>), Str(<<"N", "O">>)) }

\* the columns a raw frame may have: all of them, all but the three ids,
\* all but the age bucket and the diagnosis codes
IdColumns == {"admission_type_id", "discharge_disposition_id", "admission_source_id"}
AgeDiagColumns == {"age", "diag_1", "diag_2", "diag_3"}
Schemas ==
    LET NoIds(c) == c \notin IdColumns
        NoAgeDiag(c) == c \notin AgeDiagColumns
    IN  {RawColumns, SelectSeq(RawColumns, NoIds), SelectSeq(RawColumns, NoAgeDiag)}

Project(rows, cols) ==
    [cols |-> cols,
     rows |-> [i \in 1..Len(rows) |-> [c \in {cols[j] : j \in 1..Len(cols)} |-> rows[i][c]]]]

RawFrames ==
    {Project(rows, cols) : rows \in UNION {[1..k -> SampleRows] : k \in 1..MaxRows},
                           cols \in Schemas}

d_Emergency == <<"E", "m", "e", "r", "g", "e", "n", "c", "y">>
d_Urgent == <<"U", "r", "g", "e", "n", "t">>
d_Not_Available == s_Not_Available
d_Discharged_to_home == <<"D", "i", "s", "c", "h", "a", "r", "g", "e", "d", " ", "t", "o", " ", "h", "o", "m", "e">>
d_Emergency_Room == <<" ", "E", "m", "e", "r", "g", "e", "n", "c", "y", " ", "R", "o", "o", "m">>

Lookup(key, pairs) ==
    [cols |-> <<key, "description">>,
     rows |-> [i \in 1..Len(pairs) |->
                 [c \in {key, "description"} |->
                     IF c = key THEN Num(pairs[i][1]) ELSE Str(pairs[i][2])]]]

\* admission types: one description per id, and a table that lists id 1 twice
AdmTypeTables ==
    {Lookup("admission_type_id", <<<<1, d_Emergency>>, <<5, d_Not_Available>>>>),
     Lookup("admission_type_id", <<<<1, d_Emergency>>, <<1, d_Urgent>>>>)}
DischTables == {Lookup("discharge_disposition_id", <<<<1, d_Discharged_to_home>>>>)}
AdmSrcTables == {Lookup("admission_source_id", <<<<7, d_Emergency_Room>>>>)}

NoTable == [cols |-> <<>>, rows |-> <<>>]

\* the lookup tables of one call: none, one, or all three
MapChoices ==
    {<<NoTable, NoTable, NoTable>>}
      \cup {<<t1, NoTable, NoTable>> : t1 \in AdmTypeTables}
      \cup {<<NoTable, t2, NoTable>> : t2 \in DischTables}
      \cup {<<t1, t2, t3>> : t1 \in AdmTypeTables, t2 \in DischTables, t3 \in AdmSrcTables}

(***************************************************************************)
(* enrich_and_clean called on a raw frame, then on its own result with     *)
(* the same lookup tables                                                  *)
(***************************************************************************)
InitEnrich ==
    /\ IdleUtils
    /\ IdleServe
    /\ IdleOther
    /\ \E raw \in RawFrames : \E m \in MapChoices :
          /\ heap = <<raw, m[1], m[2], m[3]>>
          /\ df_in = 1
          /\ maps = [i \in 1..3 |-> IF m[i] = NoTable THEN None ELSE i + 1]
    /\ out1 = None
    /\ out2 = None
    /\ pc = "start"

first_pass ==
    /\ pc = "start"
    /\ \E r \in {enrich_and_clean(heap, df_in, maps[1], maps[2], maps[3])} :
          /\ heap' = r.heap
          /\ out1' = IF r.exc THEN None ELSE r.df
          /\ pc' = IF r.exc THEN "raised" ELSE "once"
    /\ UNCHANGED <<df_in, maps, out2, utilVars, serveVars, otherVars>>

second_pass ==
    /\ pc = "once"
    /\ \E r \in {enrich_and_clean(heap, out1, maps[1], maps[2], maps[3])} :
          /\ heap' = r.heap
          /\ out2' = IF r.exc THEN None ELSE r.df
          /\ pc' = IF r.exc THEN "raised" ELSE "twice"
    /\ UNCHANGED <<df_in, maps, out1, utilVars, serveVars, otherVars>>

NextEnrich == first_pass \/ second_pass

SpecEnrich == InitEnrich /\ [][NextEnrich]_vars

(***************************************************************************)
(* Properties of enrich_and_clean (checked under SpecEnrich)               *)
(***************************************************************************)
\* C1: enrich_and_clean is idempotent: applied to its own output with the
\* same lookup tables (none, some or all three), it returns a frame with the
\* same columns and the same rows as that output.
C1_Idempotent == pc = "twice" => heap[out2] = heap[out1]

\* the midpoint of each age cell of the raw rows, and the chapter of each
\* diagnosis cell, written out by hand
MidpointOfBucket(x) ==
      CASE x = Str(<<"[", "6", "0", "-", "7", "0", ")">>) -> Num(65)
        [] x = Str(<<"[", "0", "-", "1", "0", ")">>) -> Num(5)
        [] x = Str(<<"?">>) -> NaN
        [] x = Str(<<" ", "[", "9", "0", "-", "1", "0", "0", ")", " ">>) -> Num(95)
        [] x = Str(<<"[", "5", "-", "1", "0", ")">>) -> HalfOf(15)
ChapterOfCode(x) ==
      CASE x = Str(<<"2", "5", "0", ".", "0", "3">>) -> Str(s_endocrine_metabolic)
        [] x = Str(<<"4", "1", "0">>) -> Str(s_circulatory)
        [] x = Str(<<"?">>) -> Str(s_unknown)
        [] x = Str(<<"V", "4", "5">>) -> Str(s_supplemental_v)
        [] x = Str(<<"E", "9", "0", "0">>) -> Str(s_supplemental_e)
        [] x = Str(<<"9", "9", "9">>) -> Str(s_injury)
        [] x = Str(<<"9", "9", "9", "9">>) -> Str(s_other)
        [] x = Str(<<"0">>) -> Str(s_other)
        [] x = Str(<<"1", "3", "9">>) -> Str(s_infectious)
        [] x = Str(<<"1", "4", "0", ".", "5">>) -> Str(s_neoplasms)
        [] x = Str(<<" ", "2", "5", "0">>) -> Str(s_endocrine_metabolic)
        [] x = Str(<<"7", "9", "9", ".", "9">>) -> Str(s_ill_defined)
        [] x = Str(<<"v", "5", "7">>) -> Str(s_supplemental_v)
        [] x = Str(<<>>) -> Str(s_unknown)

RowEnriched(r, o) ==
    /\ o["age_years"] = MidpointOfBucket(r["age"])
    /\ o["diag_1_chapter"] = ChapterOfCode(r["diag_1"])
    /\ o["diag_2_chapter"] = ChapterOfCode(r["diag_2"])
    /\ o["diag_3_chapter"] = ChapterOfCode(r["diag_3"])

DroppedColumns == {"encounter_id", "patient_nbr", "payer_code", "medical_specialty",
                   "age", "diag_1", "diag_2", "diag_3"}

\* C2: for every raw row that has the columns age, diag_1, diag_2 and diag_3,
\* the row produced by enrich_and_clean has age_years equal to the midpoint of
\* the age bucket and diag_k_chapter equal to the ICD chapter of diag_k, and
\* the output has none of the dropped columns.
C2_EnrichedRow ==
    (pc \in {"once", "twice"} /\ AgeDiagColumns \subseteq ColSet(heap[df_in])) =>
        LET in == heap[df_in]
            out == heap[out1]
        IN  /\ ColSet(out) \cap DroppedColumns = {}
            /\ {"age_years", "diag_1_chapter", "diag_2_chapter", "diag_3_chapter"}
                  \subseteq ColSet(out)
            /\ \A i \in 1..Len(in.rows) : \E j \in 1..Len(out.rows) :
                  RowEnriched(in.rows[i], out.rows[j])
            /\ \A j \in 1..Len(out.rows) : \E i \in 1..Len(in.rows) :
                  RowEnriched(in.rows[i], out.rows[j])
            /\ Len(out.rows) = Len(in.rows) =>
                  \A i \in 1..Len(in.rows) : RowEnriched(in.rows[i], out.rows[i])

\* the example of the claim: age "[60-70)", diag_1 "250.03", diag_2 "410",
\* diag_3 "?" gives 65.0, endocrine_metabolic, circulatory, unknown
C2_Witness ==
    /\ pc = "once"
    /\ AgeDiagColumns \subseteq ColSet(heap[df_in])
    /\ heap[df_in].rows[1]["age"] = Str(<<"[", "6", "0", "-", "7", "0", ")">>)
    /\ heap[df_in].rows[1]["diag_1"] = Str(<<"2", "5", "0", ".", "0", "3">>)
    /\ heap[df_in].rows[1]["diag_2"] = Str(<<"4", "1", "0">>)
    /\ heap[df_in].rows[1]["diag_3"] = Str(<<"?">>)
    /\ heap[out1].rows[1]["age_years"] = Num(65)
    /\ heap[out1].rows[1]["diag_1_chapter"] = Str(s_endocrine_metabolic)
    /\ heap[out1].rows[1]["diag_2_chapter"] = Str(s_circulatory)
    /\ heap[out1].rows[1]["diag_3_chapter"] = Str(s_unknown)
    /\ ~HasCol(heap[out1], "age")

\* C8: enrich_and_clean never mutates its arguments: across any call, the
\* frame passed in and each supplied lookup table keep their columns, rows
\* and cell values; the result is a different frame.
C8_ArgumentsUntouched ==
    [][/\ pc = "start" => (heap'[df_in] = heap[df_in] /\ out1' # df_in)
       /\ pc = "once" => (heap'[out1] = heap[out1] /\ out2' # out1)
       /\ \A i \in 1..3 : maps[i] # None =>
             (heap'[maps[i]] = heap[maps[i]] /\ out1' # maps[i] /\ out2' # maps[i])]_vars

\* a call with a lookup table that normalized, derived and dropped columns
C8_Witness ==
    /\ pc = "once"
    /\ maps[1] # None
    /\ heap[out1] # heap[df_in]
    /\ HasCol(heap[df_in], "age") /\ ~HasCol(heap[out1], "age")
    /\ HasCol(heap[out1], "admission_type_desc")
    /\ HasCol(heap[maps[1]], "description")

\* the descriptions a lookup table holds for an id
DescriptionsOf(t, key, id) ==
    {t.rows[j]["description"] : j \in {k \in 1..Len(t.rows) : t.rows[k][key] = id}}

\* C11: with an admission-type lookup supplied and the id column present, the
\* frame returned has exactly one row per input row, in order: the row's
\* admission_type_desc is the description the lookup holds for its id, or
\* missing when the lookup does not hold the id.
C11_LeftJoinOneRowPerInputRow ==
    (pc = "once" /\ maps[1] # None /\ HasCol(heap[df_in], "admission_type_id")) =>
        LET in == heap[df_in]
            out == heap[out1]
            t == heap[maps[1]]
        IN  /\ Len(out.rows) = Len(in.rows)
            /\ HasCol(out, "admission_type_desc")
            /\ \A i \in 1..Len(in.rows) :
                  LET ds == DescriptionsOf(t, "admission_type_id", in.rows[i]["admission_type_id"])
                  IN  IF ds = {} THEN isna(out.rows[i]["admission_type_desc"])
                      ELSE out.rows[i]["admission_type_desc"] \in ds

\* the raw cells that do not parse: as an age bucket, as an ICD code, as a number
UnparsableAge == {NaN, Str(<<"?">>)}
UnparsableCode == {NaN, Str(<<"?">>), Str(<<>>)}
UnparsableNumber == {NaN, Str(<<"a", "b", "c">>)}

\* what a completed call did with the cells of input row r that do not parse
\* (o is the output row)
DegradedRow(cols, r, o) ==
    /\ ("age" \in cols /\ r["age"] \in UnparsableAge) => isna(o["age_years"])
    /\ \A k \in 1..3 :
          (diag_cols[k] \in cols /\ r[diag_cols[k]] \in UnparsableCode)
              => o[chapter_col(diag_cols[k])] = Str(s_unknown)
    /\ \A k \in 1..Len(numeric_like) :
          (numeric_like[k] \in cols /\ r[numeric_like[k]] \in UnparsableNumber)
              => isna(o[numeric_like[k]])

\* C12: whatever the cells of the age, diagnosis and numeric columns hold, a
\* call of enrich_and_clean completes without raising, returns at least as
\* many rows as it was given, and (rows being kept one for one) holds missing
\* in age_years and in the numeric cell, and "unknown" in the chapter cell, for
\* each raw value that does not parse.
C12_ParseErrorsNeverAbort ==
    pc # "start" =>
        /\ pc # "raised"
        /\ Len(heap[out1].rows) >= Len(heap[df_in].rows)
        /\ Len(heap[out1].rows) = Len(heap[df_in].rows) =>
              \A i \in 1..Len(heap[df_in].rows) :
                  DegradedRow(ColSet(heap[df_in]), heap[df_in].rows[i], heap[out1].rows[i])

(***************************************************************************)
(* src/src/train.py: the training entry point                              *)
(***************************************************************************)
\* enrich_and_clean on frames given by value; NoTable stands for None, and
\* Raised for a call that raised
EnrichFrame(f, t1, t2, t3) ==
    CHOOSE out \in {IF r.exc THEN Raised ELSE Df(r) : r \in {enrich_and_clean(<<f, t1, t2, t3>>, 1,
                                                    IF t1 = NoTable THEN None ELSE 2,
                                                    IF t2 = NoTable THEN None ELSE 3,
                                                    IF t3 = NoTable THEN None ELSE 4)}} : TRUE

\* df.dropna(): the rows without a missing cell
DropNA(f) ==
    LET Complete(r) == \A c \in ColSet(f) : ~isna(r[c])
    IN  [f EXCEPT !.rows = SelectSeq(f.rows, Complete)]

\* maybe_load_map: None without a readable path, else the two columns of the
\* file without the rows that have a missing cell
maybe_load_map(t) == IF t = NoTable THEN NoTable ELSE DropNA(t)

\* df.dropna(subset=["readmitted_30"])
DropNATarget(f) ==
    LET Labelled(r) == ~isna(r["readmitted_30"])
    IN  [f EXCEPT !.rows = SelectSeq(f.rows, Labelled)]

Count(f, c, v) == Cardinality({i \in 1..Len(f.rows) : f.rows[i][c] = v})

\* neg / max(pos, 1) with no floor at 1.0
scale_pos_weight_no_floor(p, n) == <<n, IF p > 1 THEN p ELSE 1>>

\* spw = max(neg / max(pos, 1), 1.0), as the fraction <<numerator, denominator>>
scale_pos_weight(p, n) ==
    LET den == IF p > 1 THEN p ELSE 1
    IN  IF n > den THEN <<n, den>> ELSE <<1, 1>>

\* main(args) up to the fit: the model is the pipeline fitted on the columns
\* of X.  (The split, the fit and the logging are library calls; the rows of
\* a frame stand for the kinds of row of a data set, not for its size.)
\* d names the data file and k the lookup files of the run.
train_main(d, data, k, t1, t2, t3) ==
    CHOOSE model \in
      {IF df = Raised THEN Raised ELSE
       [kind |-> "model", features |-> DropCol(df, "readmitted_30").cols, data |-> d,
        lookups |-> k,
        pos |-> Count(df, "readmitted_30", Num(1)),
        neg |-> Count(df, "readmitted_30", Num(0)),
        spw |-> scale_pos_weight(Count(df, "readmitted_30", Num(1)),
                                 Count(df, "readmitted_30", Num(0)))] : df \in
      {IF df1 = Raised THEN Raised ELSE DropNATarget(df1) : df1 \in
      {EnrichFrame(df0, maybe_load_map(t1), maybe_load_map(t2), maybe_load_map(t3)) : df0 \in
      {SetCol(data, "readmitted_30",
              [r \in 1..Len(data.rows) |-> map_readmitted(data.rows[r]["readmitted"])])}}}} : TRUE

(***************************************************************************)
(* The class weight of a training run, for every pair of class counts      *)
(***************************************************************************)
\* pos and neg are the counts of the labels 1 and 0 among the rows left by
\* dropna (train.py 50-51)
InitWeight ==
    /\ IdleUtils
    /\ IdleFrames
    /\ IdleServe
    /\ IdleFlow
    /\ IdlePrep
    /\ pos \in 0..MaxCount
    /\ neg \in 0..MaxCount
    /\ spw = NotComputed

compute_spw ==
    /\ spw = NotComputed
    /\ spw' = scale_pos_weight(pos, neg)
    /\ UNCHANGED <<pos, neg, utilVars, frameVars, serveVars, flowVars, prepVars>>

NextWeight == compute_spw

SpecWeight == InitWeight /\ [][NextWeight]_vars

Missing == 0
num_cols == <<"time_in_hospital">>
cat_cols == <<"race", "gender">>
CatColSet == {cat_cols[k] : k \in 1..Len(cat_cols)}

\* SimpleImputer(strategy="most_frequent").fit: the most frequent value that
\* is not missing, the smallest one among equals
most_frequent(col) ==
    LET seen == {col[i] : i \in 1..Len(col)} \ {Missing}
        times(v) == Cardinality({i \in 1..Len(col) : col[i] = v})
    IN  CHOOSE v \in seen : \A w \in seen : times(v) > times(w) \/ (times(v) = times(w) /\ v <= w)

impute(fill, v) == IF v = Missing THEN fill ELSE v

\* OneHotEncoder.fit: categories_ is the sorted list of the values of the column
RECURSIVE sorted(_)
sorted(S) == IF S = {} THEN <<>> ELSE <<FirstOf(S)>> \o sorted(S \ {FirstOf(S)})
categories(fill, col) == sorted({impute(fill, col[i]) : i \in 1..Len(col)})

\* the entries of an output row are 0 and 1 in the one-hot blocks; Scaled
\* stands for the standardized number of a numeric column and ValueError for
\* a transform that raised
Scaled == 2
ValueError == 0 - 1

\* handle_unknown="error": an unknown value raises ValueError
onehot_error(cats, v) ==
    IF \E i \in 1..Len(cats) : cats[i] = v THEN [i \in 1..Len(cats) |-> IF cats[i] = v THEN 1 ELSE 0]
    ELSE <<ValueError>>

\* OneHotEncoder.transform of one value, handle_unknown="ignore": the
\* indicator of the value among the categories, all zero for an unknown one
onehot(cats, v) == [i \in 1..Len(cats) |-> IF cats[i] = v THEN 1 ELSE 0]

\* get_feature_names_out: the numeric columns, then for each categorical
\* column in order one name per category
RECURSIVE cat_names(_, _)
cat_names(cats, k) ==
    IF k > Len(cat_cols) THEN <<>>
    ELSE [i \in 1..Len(cats[cat_cols[k]]) |-> <<cat_cols[k], cats[cat_cols[k]][i]>>]
           \o cat_names(cats, k + 1)
feature_names(cats) == [i \in 1..Len(num_cols) |-> <<num_cols[i], 0>>] \o cat_names(cats, 1)

\* pipe.fit(X): what the fitted ColumnTransformer holds
fit(X) ==
    LET fill == [c \in CatColSet |-> most_frequent(X[c])]
        cats == [c \in CatColSet |-> categories(fill[c], X[c])]
    IN  [kind |-> "fitted", fill |-> fill, categories |-> cats, names |-> feature_names(cats)]

\* transform of one row: the numeric slots, then the one-hot block of each
\* categorical column in order
RECURSIVE cat_blocks(_, _, _)
cat_blocks(pre, row, k) ==
    IF k > Len(cat_cols) THEN <<>>
    ELSE onehot(pre.categories[cat_cols[k]], impute(pre.fill[cat_cols[k]], row[cat_cols[k]]))
           \o cat_blocks(pre, row, k + 1)
transform_row(pre, row) ==
    LET values == [i \in 1..Len(num_cols) |-> Scaled] \o cat_blocks(pre, row, 1)
    IN  [kind |-> "transformed",
         raised |-> \E i \in 1..Len(values) : values[i] = ValueError,
         names |-> feature_names(pre.categories),
         values |-> values]

\* the training columns: MaxFit rows; a column of strings holds at least one
\* value that is not missing (an all-missing column is numeric to pandas)
FitColumns == {col \in [1..MaxFit -> 0..MaxCat] : \E i \in 1..MaxFit : col[i] # Missing}
InitPreprocess ==
    /\ IdleUtils
    /\ IdleFrames
    /\ IdleServe
    /\ IdleTrain
    /\ IdleFlow
    /\ X_fit \in [CatColSet -> FitColumns]
    /\ fitted = NotFitted
    /\ x_new = <<>>
    /\ transformed = NotTransformed

pipe_fit ==
    /\ fitted = NotFitted
    /\ fitted' = fit(X_fit)
    /\ UNCHANGED <<X_fit, x_new, transformed, utilVars, frameVars, serveVars, trainVars, flowVars>>

pipe_predict ==
    /\ fitted # NotFitted
    /\ transformed = NotTransformed
    /\ \E row \in [CatColSet -> 0..MaxCat] :
          /\ x_new' = row
          /\ transformed' = transform_row(fitted, row)
    /\ UNCHANGED <<X_fit, fitted, utilVars, frameVars, serveVars, trainVars, flowVars>>

NextPreprocess == pipe_fit \/ pipe_predict

SpecPreprocess == InitPreprocess /\ [][NextPreprocess]_vars

\* the positions of the output that belong to categorical column c
BlockOf(c) == {i \in 1..Len(transformed.names) : transformed.names[i][1] = c}
SeenAtFit(c) == {X_fit[c][i] : i \in 1..Len(X_fit[c])} \ {Missing}

\* C15: transforming a row never raises; a categorical value that was not in
\* the column at fit time gives an all-zero block for that column (a value
\* that was gives exactly one 1); and the output has the feature columns of
\* fit time, in number and in order.
C15_UnseenCategoryAllZero ==
    transformed # NotTransformed =>
        /\ ~transformed.raised
        /\ transformed.names = fitted.names
        /\ Len(transformed.values) = Len(fitted.names)
        /\ Len(fitted.names)
              = Len(num_cols) + Cardinality(SeenAtFit("race")) + Cardinality(SeenAtFit("gender"))
        /\ \A c \in CatColSet :
              /\ (x_new[c] # Missing /\ x_new[c] \notin SeenAtFit(c)) =>
                    \A i \in BlockOf(c) : transformed.values[i] = 0
              /\ x_new[c] \in SeenAtFit(c) =>
                    Cardinality({i \in BlockOf(c) : transformed.values[i] = 1}) = 1

\* a row whose race was not seen at fit time and whose gender was
C15_Witness ==
    /\ transformed # NotTransformed
    /\ x_new["race"] # Missing /\ x_new["race"] \notin SeenAtFit("race")
    /\ x_new["gender"] \in SeenAtFit("gender")
    /\ Cardinality(SeenAtFit("race")) = 2
    /\ \A i \in BlockOf("race") : transformed.values[i] = 0
    /\ ~transformed.raised

(***************************************************************************)
(* src/test_workflow.py: main runs six steps in order, then the summary.   *)
(* An entry of results is (name, result); via tells whether the step       *)
(* returned the result or main's except clause set it.                     *)
(***************************************************************************)
tests == <<"Data Validation", "Data Preprocessing", "Model Training",
           "Model Evaluation", "Docker Build", "Streamlit App">>

\* the acceptance bar of the evaluation step, on the scale of roc_auc
AucScale == 1000
Threshold == 700
AucValues == {0, 500, 699, 700, 701, AucScale}

\* the loop body of main: result = test_func(); results.append(...), with
\* except Exception: results.append((test_name, False))
Returned(k, result) == [name |-> tests[k], result |-> result, via |-> "return"]
Excepted(k) == [name |-> tests[k], result |-> FALSE, via |-> "except"]
step(k, outcome) ==
    /\ wf_pc = k
    /\ results' = Append(results, IF outcome = "raised" THEN Excepted(k)
                                  ELSE Returned(k, outcome = "True"))
    /\ wf_pc' = k + 1
    /\ UNCHANGED <<exit_status, utilVars, frameVars, serveVars, trainVars, prepVars>>

\* the summary returning 0 as soon as one step passed
exit_code_any_passed(passed, total) == IF passed > 0 THEN 0 ELSE 1

\* the summary: 0 when every result is True, else 1
exit_code(passed, total) == IF passed = total THEN 0 ELSE 1

InitWorkflow ==
    /\ IdleUtils
    /\ IdleFrames
    /\ IdleServe
    /\ IdleTrain
    /\ IdlePrep
    /\ wf_pc = 1
    /\ results = <<>>
    /\ roc_auc = NoAuc
    /\ exit_status = NoStatus

\* the data file is missing, does not parse, lacks a required column, or is fine
test_data_validation ==
    \E found \in {"no file", "read error", "missing columns", "valid"} :
        /\ step(1, IF found = "valid" THEN "True" ELSE "False")
        /\ UNCHANGED roc_auc

\* enrich_and_clean and to_csv inside try / except Exception
test_preprocessing ==
    \E raised \in BOOLEAN :
        /\ step(2, IF raised THEN "False" ELSE "True")
        /\ UNCHANGED roc_auc

\* run_command: True, False on CalledProcessError, any other exception of
\* subprocess.run goes to main
test_model_training ==
    \E run \in {"completed", "CalledProcessError", "other exception"} :
        /\ step(3, CASE run = "completed" -> "True"
                     [] run = "CalledProcessError" -> "False"
                     [] OTHER -> "raised")
        /\ UNCHANGED roc_auc

\* everything inside try / except Exception: no model found and any
\* exception give False; a score below 0.7 gives False, any other True
test_model_evaluation ==
    \E found \in {"exception", "no runs", "no experiment", "scored"} :
    \E auc \in AucValues :
        /\ roc_auc' = IF found = "scored" THEN auc ELSE NoAuc
        /\ step(4, IF found = "scored" /\ ~(auc < Threshold) THEN "True" ELSE "False")

\* no docker is a pass; with docker the result of the build
test_docker_build ==
    \E docker \in {"unavailable", "built", "build failed"} :
        /\ step(5, IF docker = "build failed" THEN "False" ELSE "True")
        /\ UNCHANGED roc_auc

\* import of the app inside try / except Exception
test_streamlit_app ==
    \E imported \in BOOLEAN :
        /\ step(6, IF imported THEN "True" ELSE "False")
        /\ UNCHANGED roc_auc

main_summary ==
    /\ wf_pc = Len(tests) + 1
    /\ exit_status' = exit_code(Cardinality({i \in 1..Len(results) : results[i].result}),
                                Len(results))
    /\ wf_pc' = wf_pc + 1
    /\ UNCHANGED <<results, roc_auc, utilVars, frameVars, serveVars, trainVars, prepVars>>

NextWorkflow ==
    \/ test_data_validation
    \/ test_preprocessing
    \/ test_model_training
    \/ test_model_evaluation
    \/ test_docker_build
    \/ test_streamlit_app
    \/ main_summary

SpecWorkflow == InitWorkflow /\ [][NextWorkflow]_vars

\* C14: a score below 0.70 makes the evaluation step return False (it does not
\* raise), the steps run in their fixed order whatever each result, all six
\* have run when main returns, main then returns non-zero, and main returns 0
\* exactly when all six results are True.
C14_LowAucFailsWorkflow ==
    /\ \A i \in 1..Len(results) : results[i].name = tests[i]
    /\ (roc_auc # NoAuc /\ roc_auc < Threshold) =>
          /\ Len(results) >= 4
          /\ results[4] = [name |-> "Model Evaluation", result |-> FALSE, via |-> "return"]
    /\ (wf_pc > 4 /\ wf_pc <= Len(tests) + 1) => Len(results) = wf_pc - 1
    /\ exit_status # NoStatus =>
          /\ Len(results) = 6
          /\ (roc_auc # NoAuc /\ roc_auc < Threshold) => exit_status # 0
          /\ exit_status = 0 <=> \A i \in 1..6 : results[i].result

\* main returned 1 after a score of 0.699, with every other step passed
C14_Witness ==
    /\ exit_status = 1
    /\ roc_auc = 699
    /\ Len(results) = 6
    /\ \A i \in {1, 2, 3, 5, 6} : results[i].result

(***************************************************************************)
(* src/app_streamlit.py: one run of the script per user interaction        *)
(***************************************************************************)
NoModel == [kind |-> "None", features |-> <<>>, data |-> 0, lookups |-> 0,
            pos |-> 0, neg |-> 0, spw |-> <<1, 1>>]
\* a model URI that names nothing in the registry
MissingUri == [kind |-> "missing", features |-> <<>>, data |-> 0, lookups |-> 0,
               pos |-> 0, neg |-> 0, spw |-> <<1, 1>>]

\* the keys of the row the single-entry form builds
SingleFormColumns ==
    <<
      "race", "gender", "age_years", "weight",
      "time_in_hospital", "num_lab_procedures", "num_procedures", "num_medications",
      "number_outpatient", "number_emergency", "number_inpatient", "number_diagnoses",
      "admission_type_id", "discharge_disposition_id", "admission_source_id", "diag_1_chapter",
      "diag_2_chapter", "diag_3_chapter", "max_glu_serum", "A1Cresult",
      "insulin", "metformin", "glipizide", "glimepiride",
      "glyburide", "repaglinide", "nateglinide", "chlorpropamide",
      "glimepiride-pioglitazone", "glipizide-metformin", "glyburide-metformin", "metformin-rosiglitazone",
      "metformin-pioglitazone", "acarbose", "miglitol", "troglitazone",
      "tolazamide", "examide", "citoglipton", "acetohexamide",
      "tolbutamide", "pioglitazone", "rosiglitazone", "change",
      "diabetesMed", "readmitted" >>

\* the CSV files a user may train on or upload: all raw columns, no id
\* columns, and a file of unlabelled encounters
ServeFiles ==
    LET r1 == CHOOSE r \in SampleRows : r["diag_2"] = Str(<<"4", "1", "0">>)
        r2 == CHOOSE r \in SampleRows : r["diag_2"] = Str(<<"E", "9", "0", "0">>)
        NoIds(c) == c \notin IdColumns
        NoLabel(c) == c # "readmitted"
    IN  <<Project(<<r1, r2>>, RawColumns),
          Project(<<r2>>, SelectSeq(RawColumns, NoIds)),
          Project(<<r1>>, SelectSeq(RawColumns, NoLabel))>>

\* the lookup files a training run may be given: none, the admission types,
\* all three
TrainLookups ==
    LET t1 == CHOOSE t \in AdmTypeTables : t.rows[2]["admission_type_id"] = Num(5)
        t2 == CHOOSE t \in DischTables : TRUE
        t3 == CHOOSE t \in AdmSrcTables : TRUE
    IN  <<<<NoTable, NoTable, NoTable>>, <<t1, NoTable, NoTable>>, <<t1, t2, t3>>>>

\* the result of each training run and the enriched form of each upload
\* (both are functions of the files alone)
Trained ==
    [d \in 1..Len(ServeFiles) |-> [k \in 1..Len(TrainLookups) |->
        IF HasCol(ServeFiles[d], "readmitted")
        THEN train_main(d, ServeFiles[d], k, TrainLookups[k][1], TrainLookups[k][2],
                        TrainLookups[k][3])
        ELSE Raised]]
Processed == [f \in 1..Len(ServeFiles) |-> EnrichFrame(ServeFiles[f], NoTable, NoTable, NoTable)]

\* model.predict(frame): None has no predict (AttributeError); the fitted
\* pipeline raises when a column it was fitted on is missing
predict(model, cols) ==
    IF model.kind # "model" THEN "raised"
    ELSE IF {model.features[i] : i \in 1..Len(model.features)}
               \subseteq {cols[i] : i \in 1..Len(cols)}
    THEN "ok" ELSE "raised"

Call(path, model, cols, f, viaEnrich) ==
    [path |-> path, model |-> model, cols |-> cols, file |-> f,
     enriched |-> viaEnrich, outcome |-> predict(model, cols)]

\* the sidebar with an except clause that resets the session's model
sidebar_load_clears(registered, sess, load_clicked, uri) ==
    IF ~load_clicked THEN [session |-> sess, msgs |-> {}, loads |-> 0]
    ELSE IF uri \in registered THEN [session |-> uri, msgs |-> {"Model loaded."}, loads |-> 1]
    ELSE [session |-> NoModel, msgs |-> {"Load failed"}, loads |-> 1]

\* the sidebar: a click on "Load model" loads the URI or reports the failure
sidebar_load(registered, sess, load_clicked, uri) ==
    IF ~load_clicked THEN [session |-> sess, msgs |-> {}, loads |-> 0]
    ELSE IF uri \in registered THEN [session |-> uri, msgs |-> {"Model loaded."}, loads |-> 1]
    ELSE [session |-> sess, msgs |-> {"Load failed"}, loads |-> 1]

\* Predict pressed with no check of the session model
tab1_predict_unguarded(model, predict_clicked) ==
    IF ~predict_clicked THEN [calls |-> {}, msgs |-> {}]
    ELSE LET c == Call("single", model, SingleFormColumns, 0, FALSE)
         IN  [calls |-> {c},
              msgs |-> IF c.outcome = "ok" THEN {"metric"} ELSE {"exception"}]

\* the Single Entry tab
tab1_predict(model, predict_clicked) ==
    IF ~predict_clicked THEN [calls |-> {}, msgs |-> {}]
    ELSE IF model = NoModel
    THEN [calls |-> {}, msgs |-> {"Load a model from the sidebar first."}]
    ELSE LET c == Call("single", model, SingleFormColumns, 0, FALSE)
         IN  [calls |-> {c},
              msgs |-> IF c.outcome = "ok" THEN {"metric"} ELSE {"exception"}]

\* the Batch CSV tab
tab2_batch(model, f) ==
    IF f # 0 /\ model # NoModel /\ Processed[f] = Raised
    THEN [calls |-> {}, msgs |-> {"Error processing CSV"}]
    ELSE IF f # 0 /\ model # NoModel
    THEN LET df_processed == Processed[f]
             c == Call("batch", model, df_processed.cols, f, TRUE)
         IN  [calls |-> {c},
              msgs |-> IF c.outcome = "ok" THEN {"dataframe"} ELSE {"Error processing CSV"}]
    ELSE IF f # 0 /\ model = NoModel
    THEN [calls |-> {}, msgs |-> {"Load a model first."}]
    ELSE [calls |-> {}, msgs |-> {}]

\* one run of the script, top to bottom; an exception that no handler
\* catches ends the run
script_run(registered, sess, f, load_clicked, uri, predict_clicked) ==
    LET side == sidebar_load(registered, sess, load_clicked, uri)
        model == IF side.session = Absent THEN NoModel ELSE side.session
        t1 == tab1_predict(model, predict_clicked)
        t2 == IF "exception" \in t1.msgs THEN [calls |-> {}, msgs |-> {}]
              ELSE tab2_batch(model, f)
    IN  [session |-> model,
         loads |-> side.loads,
         calls |-> t1.calls \cup t2.calls,
         msgs |-> side.msgs \cup t1.msgs \cup t2.msgs]

InitServe ==
    /\ IdleUtils
    /\ IdleFrames
    /\ IdleServe
    /\ IdleOther

\* python -m src.train --data ... [--adm_type_map ...]: a file without the
\* readmitted column ends the run with a KeyError
train ==
    \E d \in 1..Len(ServeFiles) : \E k \in 1..Len(TrainLookups) : \E m \in {Trained[d][k]} :
        /\ Cardinality(registry) < MaxModels
        /\ IF m # Raised
           THEN /\ registry' = registry \cup {m}
                /\ train_status' = "registered"
           ELSE /\ registry' = registry
                /\ train_status' = "raised"
        /\ UNCHANGED <<session_model, file, clicked, calls, msgs, loads, utilVars, frameVars,
                       otherVars>>

\* one user interaction, and the rerun of the script it causes: the uploader
\* holds file f (kept, changed or emptied), at most one button reads True,
\* and the URI box holds uri
rerun ==
    \E f \in 0..Len(ServeFiles) : \E click \in {"none", "load", "predict"} :
    \E uri \in registry \cup {MissingUri} :
    \E r \in {script_run(registry, session_model, f, click = "load", uri, click = "predict")} :
        /\ click # "none" => f = file
        /\ session_model' = r.session
        /\ calls' = r.calls
        /\ msgs' = r.msgs
        /\ loads' = r.loads
        /\ file' = f
        /\ clicked' = click
        /\ UNCHANGED <<registry, train_status, utilVars, frameVars, otherVars>>

NextServe ==
    \/ train
    \/ rerun

SpecServe == InitServe /\ [][NextServe]_vars

(***************************************************************************)
(* Properties of the serving UI (checked under SpecServe)                  *)
(***************************************************************************)
\* C9: over any sequence of Load-model clicks (succeeding or failing),
\* Predict clicks and uploads, predict is never invoked while no model has
\* been loaded: with the session model None, Predict and an uploaded CSV
\* only produce a warning.
C9_NoPredictWithoutModel ==
    /\ \A c \in calls : c.model.kind = "model" /\ c.model \in registry
    /\ session_model = NoModel =>
          /\ calls = {}
          /\ clicked = "predict" => "Load a model from the sidebar first." \in msgs
          /\ file # 0 => "Load a model first." \in msgs
          /\ msgs \cap {"metric", "dataframe", "exception", "Error processing CSV"} = {}

\* Predict pressed after a failed load, with a file in the uploader
C9_Witness ==
    /\ session_model = NoModel
    /\ clicked = "predict"
    /\ file # 0
    /\ registry # {}
    /\ msgs = {"Load a model from the sidebar first.", "Load a model first."}

\* C10: the batch path calls predict only on the output of enrich_and_clean,
\* and for the same raw CSV that output has the same set of feature columns
\* as the frame X the training entry point fits on, whichever lookup tables
\* training was invoked with.
C10_BatchMatchesTraining ==
    \A c \in calls :
        c.path = "batch" =>
            /\ c.enriched
            /\ c.model.data = c.file =>
                  {c.cols[i] : i \in 1..Len(c.cols)}
                      = {c.model.features[i] : i \in 1..Len(c.model.features)}

\* the session's model as a script run finds it: no entry reads as None
Before == IF session_model = Absent THEN NoModel ELSE session_model

====
